---- MODULE Spec2Model ----
(***************************************************************************)
(* firedrake/bcs.py: the DirichletBC class.                                *)
(*                                                                         *)
(* One DirichletBC object is modelled.  Its attributes are the variables;  *)
(* every public method, property access and attribute assignment is one    *)
(* action.  Objects handed to the bc (boundary values g, targets r, states *)
(* u) are records tagged with a `kind`.                                    *)
(*                                                                         *)
(*   [kind |-> "const", c]             a literal constant                  *)
(*   [kind |-> "iterable", c]          an iterable of literal constants    *)
(*   [kind |-> "Expression", c, x]     Expression with code "c + x*x[0]"   *)
(*   [kind |-> "Function", space, dat] a Function; dat[i][n] is the value  *)
(*                                     of component i at node n            *)
(*   [kind |-> "Matrix", space, bcs]   a Matrix; bcs counts add_bc calls   *)
(*   [kind |-> "invalid"]              not an Expression, rejected by      *)
(*                                     as_ufl and by to_expression         *)
(*   [kind |-> "None"]                 Python None                         *)
(***************************************************************************)
EXTENDS Integers, Sequences, FiniteSets, TLC

VARIABLES
  function_space,    \* self._function_space
  g,                 \* the value passed to __init__
  function_arg,      \* self._function_arg
  original_arg,      \* self._original_arg
  currently_zeroed,  \* self._currently_zeroed
  sub_domain,        \* self.sub_domain
  dict,              \* the entries utils.cached_property stored on the instance
  r,                 \* the object last passed as r, as the call left it
  call               \* the last call: operation, arguments, exception raised

vars == <<function_space, g, function_arg, original_arg, currently_zeroed,
          sub_domain, dict, r, call>>

(***************************************************************************)
(* Bounds of the model.                                                    *)
(***************************************************************************)
MaxConst  == 1     \* literal constants are 0..MaxConst
NumFields == 1     \* distinct user Functions per function space
MaxAddBc  == 1     \* add_bc calls recorded on one Matrix

NoIndex == -1      \* fs.index is None

None == [kind |-> "None"]

Range(s) == {s[i] : i \in DOMAIN s}

(***************************************************************************)
(* The function spaces of the model.  V: a scalar space on an extruded     *)
(* mesh (two columns of three nodes).  M: a mixed space on a square mesh   *)
(* of four nodes, with the indexed subspaces M0 (no point evaluation) and  *)
(* M1.                                                                     *)
(***************************************************************************)
extruded(fs) == fs = "V"

index(fs) == IF fs = "M0" THEN 0 ELSE IF fs = "M1" THEN 1 ELSE NoIndex

has_parent(fs) == fs \in {"M0", "M1"}

parent(fs) == IF has_parent(fs) THEN "M" ELSE "None"

point_evaluation(fs) == fs # "M0"

layers(fs) == IF extruded(fs) THEN 3 ELSE 1

\* number of nodes of (one component of) a space, number of components
num_nodes(fs) == IF extruded(fs) THEN 6 ELSE 4

num_components(fs) == IF fs = "M" THEN 2 ELSE 1

\* fs.exterior_facet_boundary_node_map.values_with_halo: one row per
\* exterior facet (of the base mesh when extruded)
values_with_halo(fs) ==
  IF extruded(fs) THEN << <<4, 5>>, <<1, 2>> >>
  ELSE << <<1, 2>>, <<2, 3>>, <<3, 4>>, <<4, 1>> >>

\* fs.exterior_facet_boundary_node_map.offset
facet_offset(fs) == IF extruded(fs) THEN <<1, 1>> ELSE <<0, 0>>

\* the markers of the exterior facets, in facet order
exterior_facet_markers(fs) ==
  IF extruded(fs) THEN <<"2", "1">> ELSE <<"2", "2", "1", "1">>

bottom_nodes(fs) == <<1, 4>>

top_nodes(fs) == <<3, 6>>

\* sub-domain ids are written as the strings "1", "2" so that they can be
\* compared with the markers "top" and "bottom"
SubDomains(fs) ==
  IF extruded(fs) THEN {"1", "bottom", "top"} ELSE {"1", "2"}

(***************************************************************************)
(* numpy helpers used by nodes.                                            *)
(***************************************************************************)
RECURSIVE sorted(_)
sorted(S) ==
  IF S = {} THEN <<>>
  ELSE LET m == CHOOSE x \in S : \A y \in S : x <= y
       IN <<m>> \o sorted(S \ {m})

\* np.unique: the sorted unique elements of the flattened array
RECURSIVE flatten(_)
flatten(rows) ==
  IF rows = <<>> THEN <<>> ELSE Head(rows) \o flatten(Tail(rows))

np_unique(rows) == sorted(Range(flatten(rows)))

\* array.take(indices, axis=0)
take(rows, indices) == [k \in DOMAIN indices |-> rows[indices[k]]]

\* exterior_facets.subset(sub_domain).indices: the facets carrying the marker
RECURSIVE subset_indices_from(_, _, _)
subset_indices_from(markers, sd, k) ==
  IF k > Len(markers) THEN <<>>
  ELSE (IF markers[k] = sd THEN <<k>> ELSE <<>>)
       \o subset_indices_from(markers, sd, k + 1)

subset_indices(fs, sd) == subset_indices_from(exterior_facet_markers(fs), sd, 1)

\* base_maps + i * facet_offset (broadcast over the rows)
shifted(base_maps, i, off) ==
  [k \in DOMAIN base_maps |->
     [j \in DOMAIN base_maps[k] |-> base_maps[k][j] + i * off[j]]]

RECURSIVE concatenate_layers(_, _, _, _)
concatenate_layers(base_maps, off, i, n) ==
  IF i >= n THEN <<>>
  ELSE shifted(base_maps, i, off)
       \o concatenate_layers(base_maps, off, i + 1, n)

\* nodes without np.unique: the concatenated facet rows as they come
nodes_compute_no_unique(fs, sd) ==
  IF sd = "bottom" THEN bottom_nodes(fs)
  ELSE IF sd = "top" THEN top_nodes(fs)
  ELSE IF extruded(fs)
       THEN LET base_maps == take(values_with_halo(fs), subset_indices(fs, sd))
            IN flatten(concatenate_layers(base_maps, facet_offset(fs), 0,
                                          layers(fs) - 1))
       ELSE flatten(take(values_with_halo(fs), subset_indices(fs, sd)))

\* DirichletBC.nodes, the body of the cached property
nodes_compute(fs, sd) ==
  IF sd = "bottom" THEN bottom_nodes(fs)
  ELSE IF sd = "top" THEN top_nodes(fs)
  ELSE IF extruded(fs)
       THEN LET base_maps == take(values_with_halo(fs), subset_indices(fs, sd))
            IN np_unique(concatenate_layers(base_maps, facet_offset(fs), 0,
                                            layers(fs) - 1))
       ELSE np_unique(take(values_with_halo(fs), subset_indices(fs, sd)))

\* op2.Subset(self._function_space.node_set, self.nodes)
Subset(fs, nodes) == [superset |-> fs, indices |-> nodes]

\* utils.cached_property: the first access stores the value on the instance
nodes_get(fs, sd, d) ==
  IF "nodes" \in DOMAIN d THEN d
  ELSE d @@ ("nodes" :> nodes_compute(fs, sd))

node_set_get(fs, sd, d) ==
  IF "node_set" \in DOMAIN d THEN d
  ELSE LET d1 == nodes_get(fs, sd, d)
       IN d1 @@ ("node_set" :> Subset(fs, d1["nodes"]))

(***************************************************************************)
(* Values.                                                                 *)
(***************************************************************************)
Const(c) == [kind |-> "const", c |-> c]

Function(fs, dat) == [kind |-> "Function", space |-> fs, dat |-> dat]

\* the value of Expression e at node n (the node's coordinate is n)
eval(e, n) == e.c + e.x * n

\* function.Function(V).interpolate(g): nodal values of g
interpolate(fs, e) ==
  Function(fs, << [n \in 1..num_nodes(fs) |-> eval(e, n)] >>)

\* projection.project(g, V): the coefficients of the L2 projection, which
\* are not nodal values of g
project(fs, e) ==
  Function(fs, << [n \in 1..num_nodes(fs) |-> 2 * eval(e, n) + 1] >>)

\* expression.to_expression(g) for an iterable of constants
to_expression(it) == [kind |-> "Expression", c |-> it.c, x |-> 0]

\* the setter without the interpolation of Expressions onto the bc's space
function_arg_setter_raw(fs, val) ==
  IF val.kind = "Function" /\ val.space # fs
  THEN [raised |-> "RuntimeError", value |-> None]
  ELSE IF val.kind = "invalid"
  THEN [raised |-> "ValueError", value |-> None]
  ELSE [raised |-> "None",
        value |-> IF val.kind = "iterable" THEN to_expression(val) ELSE val]

\* the function_arg setter: the exception raised and the value stored
function_arg_setter(fs, val) ==
  IF val.kind = "Function" /\ val.space # fs
  THEN [raised |-> "RuntimeError", value |-> None]
  ELSE IF val.kind = "invalid"
  THEN [raised |-> "ValueError", value |-> None]
  ELSE LET g1 == IF val.kind = "iterable" THEN to_expression(val) ELSE val
           g2 == IF g1.kind = "Expression"
                 THEN IF point_evaluation(fs) THEN interpolate(fs, g1)
                                              ELSE project(fs, g1)
                 ELSE g1
       IN [raised |-> "None", value |-> g2]

\* a user Function on fs; field k has distinct values at all nodes
Field(fs, k) ==
  Function(fs, [i \in 1..num_components(fs) |->
                  [n \in 1..num_nodes(fs) |-> 100 * k + 10 * i + n]])

Consts == 0..MaxConst

BcSpaces == {"V", "M0", "M1"}

\* a function space other than fs
other(fs) == IF fs = "V" THEN "M1" ELSE "V"

\* what a caller may pass as a boundary value of a bc on fs
Values(fs) ==
  {Const(c) : c \in Consts}
  \cup {[kind |-> "iterable", c |-> MaxConst + 1],
        [kind |-> "Expression", c |-> 0, x |-> 1],
        [kind |-> "invalid"],
        Field(fs, 0), Field(other(fs), 0)}

Matrix(fs, n) == [kind |-> "Matrix", space |-> fs, bcs |-> n]

\* what a caller may pass as r: a Function on a plain or on a mixed space,
\* or a Matrix on which add_bc was called n times before
Targets ==
  {Field(fs, k) : fs \in {"V", "M"}, k \in 1..NumFields}
  \cup {Matrix("M", n) : n \in 0..MaxAddBc}

\* what a caller may pass as u with r: nothing, or a state on r's space
States(target) == {None, Field(target.space, NumFields + 1)}

Call(op, a_g, a_r, a_u, raised) ==
  [op |-> op, g |-> a_g, r |-> a_r, u |-> a_u, raised |-> raised]

(***************************************************************************)
(* __init__                                                                *)
(***************************************************************************)
Init ==
  /\ function_space \in BcSpaces
  /\ g \in {v \in Values(function_space) :
              function_arg_setter(function_space, v).raised = "None"}
  /\ function_arg = function_arg_setter(function_space, g).value
  /\ original_arg = function_arg
  /\ sub_domain \in SubDomains(function_space)
  /\ currently_zeroed = FALSE
  /\ dict = <<>>
  /\ r = None
  /\ call = Call("__init__", g, None, None, "None")

(***************************************************************************)
(* Methods.                                                                *)
(***************************************************************************)

\* the assignment with the zeroed flag cleared before the value is validated
function_arg_set_flag_first(val) ==
  LET s == function_arg_setter(function_space, val)
  IN /\ function_arg' = IF s.raised = "None" THEN s.value ELSE function_arg
     /\ currently_zeroed' = FALSE
     /\ call' = Call("function_arg", val, None, None, s.raised)
     /\ r' = None
     /\ UNCHANGED <<function_space, g, original_arg, sub_domain, dict>>

\* bc.function_arg = val
function_arg_set(val) ==
  LET s == function_arg_setter(function_space, val)
  IN /\ IF s.raised = "None"
        THEN /\ function_arg' = s.value
             /\ currently_zeroed' = FALSE
        ELSE UNCHANGED <<function_arg, currently_zeroed>>
     /\ call' = Call("function_arg", val, None, None, s.raised)
     /\ r' = None
     /\ UNCHANGED <<function_space, g, original_arg, sub_domain, dict>>

\* homogenize written with set_value(0): the original value is lost
homogenize_via_set_value ==
  /\ function_arg' = function_arg_setter(function_space, Const(0)).value
  /\ original_arg' = function_arg'
  /\ currently_zeroed' = TRUE
  /\ call' = Call("homogenize", None, None, None, "None")
  /\ r' = None
  /\ UNCHANGED <<function_space, g, sub_domain, dict>>

homogenize ==
  /\ function_arg' = function_arg_setter(function_space, Const(0)).value
  /\ currently_zeroed' = TRUE
  /\ call' = Call("homogenize", None, None, None, "None")
  /\ r' = None
  /\ UNCHANGED <<function_space, g, original_arg, sub_domain, dict>>

restore ==
  /\ function_arg' = original_arg
  /\ currently_zeroed' = FALSE
  /\ call' = Call("restore", None, None, None, "None")
  /\ r' = None
  /\ UNCHANGED <<function_space, g, original_arg, sub_domain, dict>>

set_value(val) ==
  LET s == function_arg_setter(function_space, val)
  IN /\ IF s.raised = "None"
        THEN /\ function_arg' = s.value
             /\ currently_zeroed' = FALSE
             /\ original_arg' = s.value
        ELSE UNCHANGED <<function_arg, currently_zeroed, original_arg>>
     /\ call' = Call("set_value", val, None, None, s.raised)
     /\ r' = None
     /\ UNCHANGED <<function_space, g, sub_domain, dict>>

\* bc.sub_domain = sd
sub_domain_set(sd) ==
  /\ sub_domain' = sd
  /\ call' = Call("sub_domain", None, None, None, "None")
  /\ r' = None
  /\ UNCHANGED <<function_space, g, function_arg, original_arg,
                 currently_zeroed, dict>>

\* bc.nodes
nodes ==
  /\ dict' = nodes_get(function_space, sub_domain, dict)
  /\ call' = Call("nodes", None, None, None, "None")
  /\ r' = None
  /\ UNCHANGED <<function_space, g, function_arg, original_arg,
                 currently_zeroed, sub_domain>>

\* bc.node_set
node_set ==
  /\ dict' = node_set_get(function_space, sub_domain, dict)
  /\ call' = Call("node_set", None, None, None, "None")
  /\ r' = None
  /\ UNCHANGED <<function_space, g, function_arg, original_arg,
                 currently_zeroed, sub_domain>>

\* the value of the boundary condition fa at node n
value_at(fa, n) == IF fa.kind = "const" THEN fa.c ELSE fa.dat[1][n]

\* r.assign(expr, subset=ns) on component comp of r, expr[n] being the value
\* of the expression at node n
assign(target, comp, expr, ns) ==
  [target EXCEPT !.dat[comp] =
     [n \in DOMAIN @ |-> IF n \in Range(ns.indices) THEN expr[n] ELSE @[n]]]

\* apply with the residual computed as bc - u
apply_body_sign(fs, fa, sd, d, target, u) ==
  IF target.kind = "Matrix"
  THEN [raised |-> "None", r |-> [target EXCEPT !.bcs = @ + 1], dict |-> d]
  ELSE IF ~(fs = target.space \/ (has_parent(fs) /\ parent(fs) = target.space))
  THEN [raised |-> "RuntimeError", r |-> target, dict |-> d]
  ELSE LET comp == IF index(fs) # NoIndex THEN index(fs) + 1 ELSE 1
           d1 == node_set_get(fs, sd, d)
           residual == [n \in 1..num_nodes(fs) |->
                          value_at(fa, n) - u.dat[comp][n]]
           value == [n \in 1..num_nodes(fs) |-> value_at(fa, n)]
       IN [raised |-> "None",
           r |-> IF u.kind # "None"
                 THEN assign(target, comp, residual, d1["node_set"])
                 ELSE assign(target, comp, value, d1["node_set"]),
           dict |-> d1]

\* apply with a compatibility check that accepts any r once fs has a parent
apply_body_any_parent(fs, fa, sd, d, target, u) ==
  IF target.kind = "Matrix"
  THEN [raised |-> "None", r |-> [target EXCEPT !.bcs = @ + 1], dict |-> d]
  ELSE IF ~(fs = target.space \/ has_parent(fs))
  THEN [raised |-> "RuntimeError", r |-> target, dict |-> d]
  ELSE LET comp == IF index(fs) # NoIndex /\ target.space = parent(fs)
                   THEN index(fs) + 1 ELSE 1
           d1 == node_set_get(fs, sd, d)
           residual == [n \in 1..num_nodes(fs) |->
                          u.dat[comp][n] - value_at(fa, n)]
           value == [n \in 1..num_nodes(fs) |-> value_at(fa, n)]
       IN [raised |-> "None",
           r |-> IF u.kind # "None"
                 THEN assign(target, comp, residual, d1["node_set"])
                 ELSE assign(target, comp, value, d1["node_set"]),
           dict |-> d1]

\* the body of apply, on a bc with value fa and cached properties d: the
\* exception raised, r and the cached properties as the call leaves them
apply_body(fs, fa, sd, d, target, u) ==
  IF target.kind = "Matrix"
  THEN [raised |-> "None", r |-> [target EXCEPT !.bcs = @ + 1], dict |-> d]
  ELSE IF ~(fs = target.space \/ (has_parent(fs) /\ parent(fs) = target.space))
  THEN [raised |-> "RuntimeError", r |-> target, dict |-> d]
  ELSE LET comp == IF index(fs) # NoIndex THEN index(fs) + 1 ELSE 1
           d1 == node_set_get(fs, sd, d)
           residual == [n \in 1..num_nodes(fs) |->
                          u.dat[comp][n] - value_at(fa, n)]
           value == [n \in 1..num_nodes(fs) |-> value_at(fa, n)]
       IN [raised |-> "None",
           r |-> IF u.kind # "None"
                 THEN assign(target, comp, residual, d1["node_set"])
                 ELSE assign(target, comp, value, d1["node_set"]),
           dict |-> d1]

apply(target, u) ==
  LET a == apply_body(function_space, function_arg, sub_domain, dict, target, u)
  IN /\ r' = a.r
     /\ dict' = a.dict
     /\ call' = Call("apply", None, target, u, a.raised)
     /\ UNCHANGED <<function_space, g, function_arg, original_arg,
                    currently_zeroed, sub_domain>>

\* zero applying the current value instead of the homogenized one
zero_not_homogenized(target) ==
  IF target.kind = "Matrix"
  THEN /\ call' = Call("zero", None, target, None, "NotImplementedError")
       /\ r' = target
       /\ UNCHANGED <<function_space, g, function_arg, original_arg,
                      currently_zeroed, sub_domain, dict>>
  ELSE LET a == apply_body(function_space, function_arg, sub_domain, dict,
                           target, None)
       IN /\ r' = a.r
          /\ dict' = a.dict
          /\ call' = Call("zero", None, target, None, a.raised)
          /\ UNCHANGED <<function_space, g, function_arg, original_arg,
                         currently_zeroed, sub_domain>>

zero(target) ==
  IF target.kind = "Matrix"
  THEN /\ call' = Call("zero", None, target, None, "NotImplementedError")
       /\ r' = target
       /\ UNCHANGED <<function_space, g, function_arg, original_arg,
                      currently_zeroed, sub_domain, dict>>
  ELSE LET entry_zeroed == currently_zeroed
           zeroed_arg == function_arg_setter(function_space, Const(0)).value
           a == apply_body(function_space, zeroed_arg, sub_domain, dict,
                           target, None)
       IN /\ r' = a.r
          /\ dict' = a.dict
          /\ call' = Call("zero", None, target, None, a.raised)
          /\ IF a.raised = "None" /\ ~entry_zeroed
             THEN /\ function_arg' = original_arg
                  /\ currently_zeroed' = FALSE
             ELSE /\ function_arg' = zeroed_arg
                  /\ currently_zeroed' = TRUE
          /\ UNCHANGED <<function_space, g, original_arg, sub_domain>>

Next ==
  \/ \E val \in Values(function_space) : function_arg_set(val)
  \/ homogenize
  \/ restore
  \/ \E val \in Values(function_space) : set_value(val)
  \/ \E sd \in SubDomains(function_space) : sub_domain_set(sd)
  \/ nodes
  \/ node_set
  \/ \E target \in Targets : \E u \in States(target) : apply(target, u)
  \/ \E target \in Targets : zero(target)

Spec == Init /\ [][Next]_vars

\* a bc that is only homogenized and restored after its construction
NextHomogenizeRestore ==
  \/ homogenize
  \/ restore

SpecHomogenizeRestore == Init /\ [][NextHomogenizeRestore]_vars

(***************************************************************************)
(* Properties.                                                             *)
(***************************************************************************)
\* the value the bc holds right after __init__(V, g, sub_domain)
constructed == function_arg_setter(function_space, g).value

\* fs and space are the same space, or space is the parent of fs
compatible(fs, space) == fs = space \/ (has_parent(fs) /\ parent(fs) = space)

\* the component of a Function on r's space that belongs to fs
component(fs) == IF index(fs) = NoIndex THEN 1 ELSE index(fs) + 1

\* the nodes of the cached node_set
bc_nodes == Range(dict["node_set"].indices)

\* C1: in any sequence of homogenize() and restore() calls, after every
\* homogenize() the value is zero and the bc is marked as zeroed, after every
\* restore() the value is the one held right after construction and the bc
\* is not marked as zeroed, and repeating either call changes nothing.
C1_HomogenizeRestoreCycle ==
  /\ [](call.op = "homogenize" =>
          function_arg = Const(0) /\ currently_zeroed)
  /\ [](call.op = "restore" =>
          function_arg = constructed /\ ~currently_zeroed)
  /\ [][call.op \in {"homogenize", "restore"} /\ call'.op = call.op =>
          UNCHANGED <<function_arg, original_arg, currently_zeroed>>]_vars

C1_Witness ==
  /\ call.op = "restore"
  /\ function_arg.kind = "Function"
  /\ function_arg = constructed
  /\ ~currently_zeroed

\* C2: in every reachable state the value after restore() is the value
\* given to the constructor.
C2_RestoreUsesInstantiationValue ==
  call.op = "restore" => function_arg = constructed

\* C3, as claimed: after construction, set_value, an assignment to
\* function_arg, homogenize or restore succeeds, function_arg is a Function
\* on the bc's function space.
C3_AlwaysFunctionOnSpace ==
  (call.raised = "None" /\
   call.op \in {"__init__", "set_value", "function_arg", "homogenize", "restore"})
  => function_arg.kind = "Function" /\ function_arg.space = function_space

\* C3, amended: function_arg is always a Function on the bc's function space
\* or a bare literal constant.  After construction, set_value or an
\* assignment to function_arg succeeds with an iterable of constants, an
\* Expression or a Function, it is a Function on the bc's function space;
\* with a literal constant it is that constant, and after homogenize it is
\* the literal 0.
C3_FunctionOrLiteral ==
  /\ function_arg.kind \in {"const", "Function"}
  /\ function_arg.kind = "Function" =>
       /\ function_arg.space = function_space
       /\ DOMAIN function_arg.dat = 1..1
       /\ DOMAIN function_arg.dat[1] = 1..num_nodes(function_space)
  /\ original_arg.kind \in {"const", "Function"}
  /\ original_arg.kind = "Function" => original_arg.space = function_space
  /\ (call.raised = "None" /\ call.op \in {"__init__", "set_value", "function_arg"})
     => /\ call.g.kind \in {"iterable", "Expression", "Function"} =>
             function_arg.kind = "Function"
        /\ call.g.kind = "const" => function_arg = call.g
  /\ call.op = "homogenize" => function_arg = Const(0)

C3_Witness ==
  /\ call.op = "set_value"
  /\ call.raised = "None"
  /\ call.g.kind = "Expression"
  /\ function_arg.kind = "Function"
  /\ function_arg.space = function_space
  /\ ~point_evaluation(function_space)

\* C4: assigning a boundary value through function_arg or set_value fails
\* atomically: a Function on another function space raises RuntimeError, a
\* value that is no Expression and is convertible neither by as_ufl nor to
\* an Expression raises ValueError, and in both cases the value, the
\* original value and the zeroed flag are left as they were.
C4_AssignmentFailsAtomically ==
  [][call'.op \in {"function_arg", "set_value"} =>
       /\ (call'.g.kind = "Function" /\ call'.g.space # function_space)
            => call'.raised = "RuntimeError"
       /\ call'.g.kind = "invalid" => call'.raised = "ValueError"
       /\ call'.raised # "None" =>
            UNCHANGED <<function_arg, original_arg, currently_zeroed>>]_vars

C4_Witness ==
  /\ call.op = "function_arg"
  /\ call.raised = "RuntimeError"
  /\ currently_zeroed
  /\ original_arg # function_arg

C6_ApplyIncompatible ==
  /\ []((call.op = "apply" /\ call.r.kind = "Function" /\
         ~compatible(function_space, call.r.space)) =>
          call.raised = "RuntimeError" /\ r = call.r)
  /\ []((call.op = "apply" /\ call.r.kind = "Matrix") =>
          call.raised = "None" /\ r = Matrix(call.r.space, call.r.bcs + 1))
  /\ [][(call'.op = "apply" /\ (call'.raised # "None" \/ call'.r.kind = "Matrix"))
          => UNCHANGED <<function_arg, original_arg, currently_zeroed, dict>>]_vars

C6_Witness ==
  /\ call.op = "apply"
  /\ call.raised = "RuntimeError"
  /\ call.u.kind = "Function"
  /\ has_parent(function_space)
  /\ r = call.r

\* C7: after zero(r) returns for a Function r on a compatible function
\* space, every node of node_set holds zero in r and every other node of r
\* is unchanged, whatever the bc's value and whether or not the bc was
\* homogenized on entry.
C7_ZeroNodes ==
  (call.op = "zero" /\ call.r.kind = "Function" /\
   compatible(function_space, call.r.space)) =>
     /\ call.raised = "None"
     /\ r.kind = "Function" /\ r.space = call.r.space
     /\ DOMAIN r.dat = DOMAIN call.r.dat
     /\ \A i \in DOMAIN r.dat :
          /\ DOMAIN r.dat[i] = DOMAIN call.r.dat[i]
          /\ \A n \in DOMAIN r.dat[i] :
               r.dat[i][n] =
                 IF i = component(function_space) /\ n \in bc_nodes
                 THEN 0 ELSE call.r.dat[i][n]

C7_Witness ==
  /\ call.op = "zero"
  /\ call.raised = "None"
  /\ ~currently_zeroed
  /\ function_arg.kind = "Function"
  /\ r # call.r

\* the nodes of the facets marked sd, over the cell layers of the mesh
boundary_nodes(fs, sd) ==
  LET cell_layers == IF extruded(fs) THEN layers(fs) - 1 ELSE 1
      facets == {f \in DOMAIN values_with_halo(fs) :
                   exterior_facet_markers(fs)[f] = sd}
  IN UNION {{values_with_halo(fs)[f][j] + i * facet_offset(fs)[j] :
               j \in DOMAIN values_with_halo(fs)[f]} :
             f \in facets, i \in 0..(cell_layers - 1)}

strictly_increasing(seq) ==
  \A a, b \in DOMAIN seq : a < b => seq[a] < seq[b]

\* C8: nodes is computed at most once, on first access, from the sub_domain
\* and function space of that moment: bottom_nodes for "bottom", top_nodes
\* for "top", otherwise the duplicate-free sorted nodes of the marked
\* exterior facets over the layers - 1 cell layers.  Later accesses of nodes
\* and node_set return the same set, whatever is called or assigned since.
C8_NodesCached ==
  /\ [][/\ \A k \in DOMAIN dict : k \in DOMAIN dict' /\ dict'[k] = dict[k]
        /\ ("nodes" \notin DOMAIN dict /\ "nodes" \in DOMAIN dict') =>
              LET ns == dict'["nodes"]
              IN IF sub_domain = "bottom" THEN ns = bottom_nodes(function_space)
                 ELSE IF sub_domain = "top" THEN ns = top_nodes(function_space)
                 ELSE /\ strictly_increasing(ns)
                      /\ Range(ns) = boundary_nodes(function_space, sub_domain)
        /\ call'.op \in {"nodes", "node_set"} => "nodes" \in DOMAIN dict'
        /\ call'.op = "node_set" => "node_set" \in DOMAIN dict']_vars
  /\ []("node_set" \in DOMAIN dict =>
          /\ "nodes" \in DOMAIN dict
          /\ dict["node_set"] = Subset(function_space, dict["nodes"]))

C8_Witness ==
  /\ call.op = "node_set"
  /\ "node_set" \in DOMAIN dict
  /\ dict["nodes"] # nodes_compute(function_space, sub_domain)
  /\ currently_zeroed

====
